---- MODULE Spec2Model ----
(***************************************************************************)
(* A model of scripts/download_audio.py: the per-row fetch pipeline        *)
(* (download_and_extract), its adapter (process_entry) and the batch       *)
(* orchestration of main(): sequential or pooled main pass, summary,       *)
(* integrity scan and the single retry round.                              *)
(*                                                                         *)
(* The external tools (yt-dlp, ffmpeg) and the file system are the         *)
(* environment: each invocation ends with exit status 0, a non-zero exit   *)
(* status, subprocess.TimeoutExpired or an OSError, and ffmpeg's fade      *)
(* stage, which writes straight to the final output path, may leave no     *)
(* file, an undersized file or a full-sized file whatever its exit.        *)
(***************************************************************************)
EXTENDS Integers, Sequences, FiniteSets, Bags, TLC

\* Bounds of the model.
MaxRows == 2
MaxWorkers == 2

\* Values of the piece_id and audio_filename columns.
PieceIds == 1..MaxRows
Filenames == 1..MaxRows

\* Thread 0 is the main thread; 1..MaxWorkers are the pool's threads.
Threads == 0..MaxWorkers
TempNames == 0..MaxWorkers

NoDir == -1
NoFilter == {0}

VARIABLES
    table,          \* the rows read from the metadata CSV (line 247)
    piece_ids,      \* args.piece_ids: NoFilter or the set of ids kept
    workers,        \* args.workers
    rows,           \* the worklist after the id filter
    disk,           \* output directory: audio_filename -> "absent"|"small"|"big"
    tempdirs,       \* existing temporary directories: name -> files in it
    pc,             \* per thread: position in download_and_extract
    cur,            \* per thread: index in rows of the row being processed
    temp_dir,       \* per thread: name of its temporary directory, or NoDir
    pending,        \* per thread: what the with-block is being left with
    stages,         \* per thread: stages this call has run, in order
    tools,          \* per thread: what the external tools did in this call
    phase,          \* main(): "main", "integrity", "retry", "done", "aborted"
    next,           \* sequential loop / retry loop: next position
    queue,          \* pool: submitted rows no worker has taken yet
    futures,        \* pool: row index -> result of its future, or Pending
    yielded,        \* pool: futures as_completed has yielded
    results,        \* main pass: collected results
    successful,     \* summary: number of successes (-1 before the summary)
    failed,         \* summary: number of failures (-1 before the summary)
    missing_files,  \* integrity scan: piece ids whose file is absent
    missing_rows,   \* integrity scan: the rows (indices) whose file was absent
    retry_results,  \* retry round: collected results
    report,         \* what the integrity pass printed last
    still_missing,  \* ids printed as still missing after the retry
    attempts,       \* per table row: process_entry calls in this run
    run,            \* 1 for the first run of the script, 2 for a re-run
    diskStart       \* the output directory when this run started

vars == <<table, piece_ids, workers, rows, disk, tempdirs, pc, cur, temp_dir,
          pending, stages, tools, phase, next, queue, futures, yielded,
          results, successful, failed, missing_files, missing_rows,
          retry_results, report, still_missing, attempts, run, diskStart>>

inputVars == <<table, piece_ids, workers, rows>>
fetchVars == <<disk, tempdirs, pc, cur, temp_dir, pending, stages, tools, attempts>>
mainVars == <<phase, next, queue, futures, yielded, results, successful, failed,
              missing_files, missing_rows, retry_results, report, still_missing>>
runVars == <<run, diskStart>>

----------------------------------------------------------------------------
\* Helpers

Range(s) == {s[k] : k \in DOMAIN s}

Max(S) == CHOOSE x \in S : \A y \in S : y <= x

Min(S) == CHOOSE x \in S : \A y \in S : x <= y

\* The values of a column are named in order of first appearance.
InOrderOfAppearance(col) ==
    \A k \in DOMAIN col : col[k] <= 1 + Max({0} \cup {col[j] : j \in 1..(k-1)})

Tables ==
    {t \in UNION {[1..n -> [n : 1..MaxRows, piece_id : PieceIds, audio_filename : Filenames]]
                    : n \in 1..MaxRows} :
        /\ \A k \in DOMAIN t : t[k].n = k
        /\ InOrderOfAppearance([k \in DOMAIN t |-> t[k].piece_id])
        /\ InOrderOfAppearance([k \in DOMAIN t |-> t[k].audio_filename])}

\* Lines 250-252: keep the rows whose piece_id is listed.
FilterRows(t, ids) ==
    IF ids = NoFilter THEN t
    ELSE SelectSeq(t, LAMBDA row : row.piece_id \in ids)

NoTools == [dl |-> "unset", dlwrote |-> "unset", trim |-> "unset",
            fade |-> "unset", wrote |-> "unset"]

Pending == [n |-> 0, piece_id |-> 0, success |-> FALSE, message |-> "pending",
            tools |-> NoTools]

Raised == [n |-> 0, piece_id |-> 0, success |-> FALSE, message |-> "raised",
           tools |-> NoTools]

----------------------------------------------------------------------------
\* download_and_extract: what each check returns or raises

Continue == [kind |-> "continue", success |-> FALSE, what |-> "-"]
Ret(ok, msg) == [kind |-> "return", success |-> ok, what |-> msg]
Raise(exc) == [kind |-> "raise", success |-> FALSE, what |-> exc]

ToolExits == {"ok", "nonzero", "timeout", "oserror"}

\* subprocess.run does not come back: the call stays inside the wait for the tool.
Wait == [kind |-> "wait", success |-> FALSE, what |-> "-"]

\* subprocess.run, were it called without timeout=: a tool that has not exited
\* is waited for.
RunRaises_NoTimeout(exit) ==
    IF exit = "timeout" THEN Wait
    ELSE IF exit = "oserror" THEN Raise("OSError")
    ELSE Continue

\* subprocess.run with timeout= (lines 99, 129, 144): a tool that has not exited
\* when the time is up is killed and TimeoutExpired raised; OSError when the tool
\* cannot be run.
RunRaises(exit) ==
    IF exit = "timeout" THEN Raise("TimeoutExpired")
    ELSE IF exit = "oserror" THEN Raise("OSError")
    ELSE Continue

\* The existence test, were it made on a path that is never created.
Exists_WrongPath(d, f) == FALSE

\* Line 81.
Exists(d, f) == d[f] # "absent"

\* The idempotence check, were it to accept only a file above the size floor.
AlreadyExists_Reverified(d, f) ==
    IF d[f] = "big" THEN Ret(TRUE, "Already exists") ELSE Continue

\* The idempotence check, were it to look for any file in the output directory.
AlreadyExists_AnyFile(d, f) ==
    IF \E g \in DOMAIN d : d[g] # "absent" THEN Ret(TRUE, "Already exists")
    ELSE Continue

\* Lines 80-82.
AlreadyExists(d, f) == IF Exists(d, f) THEN Ret(TRUE, "Already exists") ELSE Continue

\* The download stage, were its failure reported with the extraction message.
AfterDownload_ExtractionMessage(exit) ==
    IF exit \in {"timeout", "oserror"} THEN RunRaises(exit)
    ELSE IF exit # "ok" THEN Ret(FALSE, "Extraction failed")
    ELSE Continue

\* Lines 99-102.
AfterDownload(exit) ==
    IF exit \in {"timeout", "oserror"} THEN RunRaises(exit)
    ELSE IF exit # "ok" THEN Ret(FALSE, "Download failed")
    ELSE Continue

\* Lines 105-108.
AfterLocate(files) ==
    IF "full_audio" \notin files THEN Ret(FALSE, "No audio file found after download")
    ELSE Continue

\* The trim stage, were its return code not looked at.
AfterTrim_ExitIgnored(exit) ==
    IF exit = "badtimes" THEN Raise("ValueError")
    ELSE IF exit \in {"timeout", "oserror"} THEN RunRaises(exit)
    ELSE Continue

\* Lines 113-131; "badtimes" is float() raising ValueError on line 113.
AfterTrim(exit) ==
    IF exit = "badtimes" THEN Raise("ValueError")
    ELSE IF exit \in {"timeout", "oserror"} THEN RunRaises(exit)
    ELSE IF exit # "ok" THEN Ret(FALSE, "Extraction failed")
    ELSE Continue

\* The fade stage, were its return code not looked at.
AfterFade_ExitIgnored(exit) ==
    IF exit \in {"timeout", "oserror"} THEN RunRaises(exit)
    ELSE Continue

\* Lines 144-147.
AfterFade(exit) ==
    IF exit \in {"timeout", "oserror"} THEN RunRaises(exit)
    ELSE IF exit # "ok" THEN Ret(FALSE, "Extraction failed")
    ELSE Continue

\* Lines 150-151.
AfterExists(d, f) ==
    IF ~Exists(d, f) THEN Ret(FALSE, "Output file not created") ELSE Continue

\* The size check, were the call to go on to its success return after the unlink.
AfterSize_SmallAccepted(d, f) ==
    IF d[f] = "absent" THEN Raise("FileNotFoundError")
    ELSE Ret(TRUE, "Success")

\* Lines 153-158; stat() raises FileNotFoundError when the file is gone.
AfterSize(d, f) ==
    IF d[f] = "absent" THEN Raise("FileNotFoundError")
    ELSE IF d[f] = "small" THEN Ret(FALSE, "Output file too small")
    ELSE Ret(TRUE, "Success")

\* Line 155: the undersized file is unlinked.
DiskAfterSize(d, f) == IF d[f] = "small" THEN [d EXCEPT ![f] = "absent"] ELSE d

\* The fade stage, were every call to write its output under one fixed name.
DiskAfterFade_FixedName(d, f, wrote) ==
    IF wrote = "none" THEN d ELSE [d EXCEPT ![Min(Filenames)] = wrote]

\* The fade stage's ffmpeg writes to the output path itself (line 141).
DiskAfterFade(d, f, wrote) == IF wrote = "none" THEN d ELSE [d EXCEPT ![f] = wrote]

\* The except clauses, were only subprocess.TimeoutExpired caught.
Except_TimeoutOnly(exc) ==
    IF exc = "TimeoutExpired" THEN Ret(FALSE, "Timeout")
    ELSE Raise(exc)

\* Lines 160-163: the except clauses.
Except(exc) ==
    IF exc = "TimeoutExpired" THEN Ret(FALSE, "Timeout")
    ELSE Ret(FALSE, "Error")

\* What download_and_extract hands to its caller when the with-block is left with p.
Returned(p) == IF p.kind = "raise" THEN Except(p.what) ELSE p

\* tempfile.TemporaryDirectory(): a directory with a name not in use (line 85).
MkDTemp(existing) == Min(TempNames \ existing)

\* Leaving the with-block, were the directory not removed.
Cleanup_Leak(dirs, name) == dirs

\* Leaving the with-block removes the directory (line 85).
Cleanup(dirs, name) == [x \in (DOMAIN dirs) \ {name} |-> dirs[x]]

\* Lines 184-189: the record process_entry returns, or the exception passing through.
ResultRecord(row, p, tl) ==
    IF p.kind = "raise" THEN Raised
    ELSE [n |-> row.n, piece_id |-> row.piece_id, success |-> p.success,
          message |-> p.what, tools |-> tl]

----------------------------------------------------------------------------
\* Initial state: main() up to line 259.

DiskStates == {"absent", "small", "big"}

Init ==
    /\ table \in Tables
    /\ piece_ids \in {NoFilter} \cup ((SUBSET PieceIds) \ {{}})
    /\ workers \in 1..MaxWorkers
    /\ rows = FilterRows(table, piece_ids)
    /\ disk \in [Filenames -> DiskStates]
    /\ \A f \in Filenames :
         f \notin {table[k].audio_filename : k \in DOMAIN table} => disk[f] = "absent"
    /\ tempdirs = <<>>
    /\ pc = [t \in Threads |-> "idle"]
    /\ cur = [t \in Threads |-> 0]
    /\ temp_dir = [t \in Threads |-> NoDir]
    /\ pending = [t \in Threads |-> Continue]
    /\ stages = [t \in Threads |-> <<>>]
    /\ tools = [t \in Threads |-> NoTools]
    /\ phase = "main"
    /\ next = 1
    /\ queue = IF workers = 1 THEN <<>> ELSE [k \in 1..Len(rows) |-> k]
    /\ futures = [k \in 1..Len(rows) |-> Pending]
    /\ yielded = {}
    /\ results = <<>>
    /\ successful = -1
    /\ failed = -1
    /\ missing_files = <<>>
    /\ missing_rows = {}
    /\ retry_results = <<>>
    /\ report = "none"
    /\ still_missing = <<>>
    /\ attempts = [k \in DOMAIN table |-> 0]
    /\ run = 1
    /\ diskStart = disk

----------------------------------------------------------------------------
\* download_and_extract, one action per stage, run by thread t

\* The stage ended with r: go on to the next stage, or leave the with-block; a
\* stage that does not end keeps its thread.
Goto(t, r, nextpc) ==
    /\ pc' = [pc EXCEPT ![t] = IF r.kind = "continue" THEN nextpc
                               ELSE IF r.kind = "wait" THEN "blocked"
                               ELSE "leave"]
    /\ pending' = [pending EXCEPT ![t] = r]

\* process_entry is called for rows[i] (lines 165-179) and download_and_extract
\* runs to the end of line 86: the idempotence check, then the workspace.
Enter(t, i) ==
    LET r == AlreadyExists(disk, rows[i].audio_filename)
        name == MkDTemp(DOMAIN tempdirs)
    IN  /\ cur' = [cur EXCEPT ![t] = i]
        /\ attempts' = [attempts EXCEPT ![rows[i].n] = @ + 1]
        /\ stages' = [stages EXCEPT ![t] = <<>>]
        /\ tools' = [tools EXCEPT ![t] = NoTools]
        /\ Goto(t, r, "download")
        /\ IF r.kind = "continue"
           THEN /\ tempdirs' = [x \in (DOMAIN tempdirs) \cup {name} |->
                                  IF x \in DOMAIN tempdirs THEN tempdirs[x] ELSE {}]
                /\ temp_dir' = [temp_dir EXCEPT ![t] = name]
           ELSE UNCHANGED <<tempdirs, temp_dir>>
        /\ UNCHANGED disk

\* Lines 88-102: the download stage.
Download(t) ==
    /\ pc[t] = "download"
    /\ \E exit \in ToolExits, wrote \in BOOLEAN :
         /\ wrote => exit = "ok"
         /\ tempdirs' = [tempdirs EXCEPT ![temp_dir[t]] =
                            IF wrote THEN @ \cup {"full_audio"} ELSE @]
         /\ tools' = [tools EXCEPT ![t].dl = exit,
                                   ![t].dlwrote = IF wrote THEN "yes" ELSE "no"]
         /\ Goto(t, AfterDownload(exit), "locate")
    /\ stages' = [stages EXCEPT ![t] = Append(@, "download")]
    /\ UNCHANGED <<disk, cur, temp_dir, attempts>>
    /\ UNCHANGED <<inputVars, mainVars, runVars>>

\* Lines 104-110: find the downloaded file in the workspace.
Locate(t) ==
    /\ pc[t] = "locate"
    /\ Goto(t, AfterLocate(tempdirs[temp_dir[t]]), "trim")
    /\ stages' = [stages EXCEPT ![t] = Append(@, "locate")]
    /\ UNCHANGED <<disk, tempdirs, cur, temp_dir, tools, attempts>>
    /\ UNCHANGED <<inputVars, mainVars, runVars>>

\* Lines 112-131: the trim stage.
Trim(t) ==
    /\ pc[t] = "trim"
    /\ \E exit \in ToolExits \cup {"badtimes"} :
         /\ tempdirs' = [tempdirs EXCEPT ![temp_dir[t]] =
                            IF exit = "ok" THEN @ \cup {"temp_nofade"} ELSE @]
         /\ tools' = [tools EXCEPT ![t].trim = exit]
         /\ Goto(t, AfterTrim(exit), "fade")
    /\ stages' = [stages EXCEPT ![t] = Append(@, "trim")]
    /\ UNCHANGED <<disk, cur, temp_dir, attempts>>
    /\ UNCHANGED <<inputVars, mainVars, runVars>>

\* Lines 133-147: the fade stage; ffmpeg is given the final output path.
Fade(t) ==
    /\ pc[t] = "fade"
    /\ \E exit \in ToolExits, wrote \in {"none", "small", "big"} :
         /\ exit = "oserror" => wrote = "none"
         /\ disk' = DiskAfterFade(disk, rows[cur[t]].audio_filename, wrote)
         /\ tools' = [tools EXCEPT ![t].fade = exit, ![t].wrote = wrote]
         /\ Goto(t, AfterFade(exit), "verify")
    /\ stages' = [stages EXCEPT ![t] = Append(@, "fade")]
    /\ UNCHANGED <<tempdirs, cur, temp_dir, attempts>>
    /\ UNCHANGED <<inputVars, mainVars, runVars>>

\* Lines 149-151: the output file must exist.
CheckExists(t) ==
    /\ pc[t] = "verify"
    /\ Goto(t, AfterExists(disk, rows[cur[t]].audio_filename), "size")
    /\ stages' = [stages EXCEPT ![t] = Append(@, "verify")]
    /\ UNCHANGED <<disk, tempdirs, cur, temp_dir, tools, attempts>>
    /\ UNCHANGED <<inputVars, mainVars, runVars>>

\* Lines 153-158: the size floor; an undersized file is unlinked.
CheckSize(t) ==
    /\ pc[t] = "size"
    /\ Goto(t, AfterSize(disk, rows[cur[t]].audio_filename), "leave")
    /\ disk' = DiskAfterSize(disk, rows[cur[t]].audio_filename)
    /\ UNCHANGED <<tempdirs, cur, temp_dir, stages, tools, attempts>>
    /\ UNCHANGED <<inputVars, mainVars, runVars>>

\* The with-block is left (line 85: the workspace is removed), the except clauses
\* turn an exception into a result (lines 160-163), process_entry wraps it (lines
\* 181-189) and the caller takes it: the sequential loop (line 265) and the retry
\* loop (line 319) append it, a pool thread sets its future.
Leave(t) ==
    /\ pc[t] = "leave"
    /\ LET res == ResultRecord(rows[cur[t]], Returned(pending[t]), tools[t])
       IN  IF t # 0
           THEN /\ futures' = [futures EXCEPT ![cur[t]] = res]
                /\ UNCHANGED <<phase, next, results, retry_results>>
           ELSE /\ phase' = IF res = Raised THEN "aborted" ELSE phase
                /\ next' = next + 1
                /\ results' = IF phase = "main" /\ res # Raised
                              THEN Append(results, res) ELSE results
                /\ retry_results' = IF phase = "retry" /\ res # Raised
                                    THEN Append(retry_results, res) ELSE retry_results
                /\ UNCHANGED futures
    /\ tempdirs' = Cleanup(tempdirs, temp_dir[t])
    /\ pc' = [pc EXCEPT ![t] = "idle"]
    /\ cur' = [cur EXCEPT ![t] = 0]
    /\ temp_dir' = [temp_dir EXCEPT ![t] = NoDir]
    /\ pending' = [pending EXCEPT ![t] = Continue]
    /\ stages' = [stages EXCEPT ![t] = <<>>]
    /\ tools' = [tools EXCEPT ![t] = NoTools]
    /\ UNCHANGED <<disk, attempts, queue, yielded, successful, failed,
                   missing_files, missing_rows, report, still_missing>>
    /\ UNCHANGED <<inputVars, runVars>>

----------------------------------------------------------------------------
\* main()

\* The sequential loop, were it to walk the rows from the last to the first.
SeqCall_Reversed ==
    /\ phase = "main"
    /\ workers = 1
    /\ pc[0] = "idle"
    /\ next <= Len(rows)
    /\ Enter(0, Len(rows) + 1 - next)
    /\ UNCHANGED <<inputVars, mainVars, runVars>>

\* Lines 261-265: the sequential loop calls process_entry for the next row.
SeqCall ==
    /\ phase = "main"
    /\ workers = 1
    /\ pc[0] = "idle"
    /\ next <= Len(rows)
    /\ Enter(0, next)
    /\ UNCHANGED <<inputVars, mainVars, runVars>>

\* Lines 269-273: every row is submitted; an idle pool thread takes the oldest.
Take(t) ==
    /\ phase = "main"
    /\ workers # 1
    /\ t \in 1..workers
    /\ pc[t] = "idle"
    /\ queue # <<>>
    /\ Enter(t, Head(queue))
    /\ queue' = Tail(queue)
    /\ UNCHANGED <<phase, next, futures, yielded, results, successful, failed,
                   missing_files, missing_rows, retry_results, report, still_missing>>
    /\ UNCHANGED <<inputVars, runVars>>

\* Lines 275-277: as_completed yields a finished future, its result is appended;
\* future.result() re-raises what the call raised.
Collect(i) ==
    /\ phase = "main"
    /\ workers # 1
    /\ i \in (DOMAIN futures) \ yielded
    /\ futures[i] # Pending
    /\ yielded' = yielded \cup {i}
    /\ IF futures[i] = Raised
       THEN phase' = "aborted" /\ UNCHANGED results
       ELSE results' = Append(results, futures[i]) /\ UNCHANGED phase
    /\ UNCHANGED <<next, queue, futures, successful, failed, missing_files,
                   missing_rows, retry_results, report, still_missing>>
    /\ UNCHANGED <<inputVars, fetchVars, runVars>>

\* The main pass, were the pool left as soon as every row has been handed out.
MainPassDone_Early ==
    /\ phase = "main"
    /\ IF workers = 1
       THEN next > Len(rows) /\ pc[0] = "idle"
       ELSE queue = <<>>

\* The main pass is over: the loop of line 263 or of line 275 has ended.
MainPassDone ==
    /\ phase = "main"
    /\ IF workers = 1
       THEN next > Len(rows) /\ pc[0] = "idle"
       ELSE yielded = DOMAIN futures

CountSuccess(rs) == Cardinality({k \in DOMAIN rs : rs[k].success})

\* The summary, were the integrity pass entered whether or not an id filter was given.
Summary_AlwaysIntegrity ==
    /\ MainPassDone
    /\ successful' = CountSuccess(results)
    /\ failed' = Len(results) - CountSuccess(results)
    /\ phase' = "integrity"
    /\ report' = report
    /\ results' = <<>>
    /\ futures' = [k \in DOMAIN futures |-> Pending]
    /\ yielded' = {}
    /\ UNCHANGED <<next, queue, missing_files, missing_rows, retry_results,
                   still_missing>>
    /\ UNCHANGED <<inputVars, fetchVars, runVars>>

\* Lines 279-298: the summary, then the integrity pass unless an id filter was given.
\* results and futures are not read after line 295: the model keeps the two counts
\* the summary prints and forgets the lists.
Summary ==
    /\ MainPassDone
    /\ successful' = CountSuccess(results)
    /\ failed' = Len(results) - CountSuccess(results)
    /\ phase' = IF piece_ids # NoFilter THEN "done" ELSE "integrity"
    /\ report' = IF piece_ids # NoFilter THEN "skipped" ELSE report
    /\ results' = <<>>
    /\ futures' = [k \in DOMAIN futures |-> Pending]
    /\ yielded' = {}
    /\ UNCHANGED <<next, queue, missing_files, missing_rows, retry_results,
                   still_missing>>
    /\ UNCHANGED <<inputVars, fetchVars, runVars>>

\* The scan, were it to list the rows whose file is there.
MissingFiles_Present(rs, d) ==
    LET there == SelectSeq(rs, LAMBDA row : Exists(d, row.audio_filename))
    IN  [k \in DOMAIN there |-> there[k].piece_id]

\* Lines 303-307.
MissingFiles(rs, d) ==
    LET absent == SelectSeq(rs, LAMBDA row : ~Exists(d, row.audio_filename))
    IN  [k \in DOMAIN absent |-> absent[k].piece_id]

\* Lines 303-311 and 332-333.
IntegrityScan ==
    /\ phase = "integrity"
    /\ missing_files' = MissingFiles(rows, disk)
    /\ missing_rows' = {k \in DOMAIN rows : ~Exists(disk, rows[k].audio_filename)}
    /\ IF MissingFiles(rows, disk) = <<>>
       THEN phase' = "done" /\ report' = "verified" /\ UNCHANGED next
       ELSE phase' = "retry" /\ report' = "missing" /\ next' = 1
    /\ UNCHANGED <<queue, futures, yielded, results, successful, failed,
                   retry_results, still_missing>>
    /\ UNCHANGED <<inputVars, fetchVars, runVars>>

\* Line 316: next(r for r in rows if r['piece_id'] == piece_id).
RowOf(rs, id) == Min({k \in DOMAIN rs : rs[k].piece_id = id})

\* Lines 315-318: the retry loop calls process_entry for the next missing id.
RetryCall ==
    /\ phase = "retry"
    /\ pc[0] = "idle"
    /\ next <= Len(missing_files)
    /\ Enter(0, RowOf(rows, missing_files[next]))
    /\ UNCHANGED <<inputVars, mainVars, runVars>>

\* Line 325.
StillMissing(rr) ==
    LET bad == SelectSeq(rr, LAMBDA r : ~r.success)
    IN  [k \in DOMAIN bad |-> bad[k].piece_id]

\* Lines 321-331: the retry loop has ended.
FinalCheck ==
    /\ phase = "retry"
    /\ pc[0] = "idle"
    /\ next > Len(missing_files)
    /\ still_missing' = StillMissing(retry_results)
    /\ report' = IF StillMissing(retry_results) # <<>> THEN "still_missing"
                 ELSE "all_downloaded"
    /\ phase' = "done"
    /\ UNCHANGED <<next, queue, futures, yielded, results, successful, failed,
                   missing_files, missing_rows, retry_results>>
    /\ UNCHANGED <<inputVars, fetchVars, runVars>>

\* The script is run again with the same arguments on the same output directory.
Rerun ==
    /\ phase = "done"
    /\ run = 1
    /\ run' = 2
    /\ diskStart' = disk
    /\ phase' = "main"
    /\ next' = 1
    /\ queue' = IF workers = 1 THEN <<>> ELSE [k \in 1..Len(rows) |-> k]
    /\ futures' = [k \in 1..Len(rows) |-> Pending]
    /\ yielded' = {}
    /\ results' = <<>>
    /\ successful' = -1
    /\ failed' = -1
    /\ missing_files' = <<>>
    /\ missing_rows' = {}
    /\ retry_results' = <<>>
    /\ report' = "none"
    /\ still_missing' = <<>>
    /\ attempts' = [k \in DOMAIN table |-> 0]
    /\ UNCHANGED <<disk, tempdirs, pc, cur, temp_dir, pending, stages, tools>>
    /\ UNCHANGED inputVars

Next ==
    \/ SeqCall
    \/ \E t \in Threads : Take(t)
    \/ \E t \in Threads : Download(t)
    \/ \E t \in Threads : Locate(t)
    \/ \E t \in Threads : Trim(t)
    \/ \E t \in Threads : Fade(t)
    \/ \E t \in Threads : CheckExists(t)
    \/ \E t \in Threads : CheckSize(t)
    \/ \E t \in Threads : Leave(t)
    \/ \E i \in 1..MaxRows : Collect(i)
    \/ Summary
    \/ IntegrityScan
    \/ RetryCall
    \/ FinalCheck
    \/ Rerun

Spec == Init /\ [][Next]_vars

\* Scheduling: a thread that can take a step is eventually run, and every wait
\* for an external tool ends, by the tool's exit or by the timeout of lines 99,
\* 129 and 144. Nothing obliges the user to run the script again.
ThreadStep(t) ==
    \/ Take(t)
    \/ Download(t)
    \/ Locate(t)
    \/ Trim(t)
    \/ Fade(t)
    \/ CheckExists(t)
    \/ CheckSize(t)
    \/ Leave(t)

MainStep ==
    \/ SeqCall
    \/ \E i \in 1..MaxRows : Collect(i)
    \/ Summary
    \/ IntegrityScan
    \/ RetryCall
    \/ FinalCheck

Fairness ==
    /\ \A t \in Threads : WF_vars(ThreadStep(t))
    /\ WF_vars(MainStep)

LiveSpec == Init /\ [][Next]_vars /\ Fairness

----------------------------------------------------------------------------
\* The run with workers = 1, computed: the rows in input order, each call of
\* download_and_extract run to its end before the next starts.

\* Lines 77-163 as one step: the call for output file f on directory d when the
\* external tools behave as tl records. known is FALSE when the call needs a tool
\* whose behaviour tl does not record.
RefFetch(d, f, tl) ==
    LET r0 == AlreadyExists(d, f)
        r1 == AfterDownload(tl.dl)
        r2 == AfterLocate(IF tl.dlwrote = "yes" THEN {"full_audio"} ELSE {})
        r3 == AfterTrim(tl.trim)
        r4 == AfterFade(tl.fade)
        d4 == DiskAfterFade(d, f, tl.wrote)
        r5 == AfterExists(d4, f)
        r6 == AfterSize(d4, f)
        d6 == DiskAfterSize(d4, f)
        Out(r, dd) == [p |-> Returned(r), disk |-> dd, known |-> TRUE]
        Unknown == [p |-> Continue, disk |-> d, known |-> FALSE]
    IN  IF r0.kind # "continue" THEN Out(r0, d)
        ELSE IF tl.dl = "unset" THEN Unknown
        ELSE IF r1.kind # "continue" THEN Out(r1, d)
        ELSE IF r2.kind # "continue" THEN Out(r2, d)
        ELSE IF tl.trim = "unset" THEN Unknown
        ELSE IF r3.kind # "continue" THEN Out(r3, d)
        ELSE IF tl.fade = "unset" THEN Unknown
        ELSE IF r4.kind # "continue" THEN Out(r4, d4)
        ELSE IF r5.kind # "continue" THEN Out(r5, d4)
        ELSE Out(r6, d6)

\* Lines 263-265 from row k on, on directory d, with the tools behaving for each
\* row as script says.
RECURSIVE SeqRun(_, _, _, _)
SeqRun(rs, k, d, script) ==
    IF k > Len(rs) THEN <<>>
    ELSE LET o == RefFetch(d, rs[k].audio_filename, script[k])
         IN  <<[piece_id |-> rs[k].piece_id, success |-> o.p.success,
                message |-> o.p.what, known |-> o.known]>>
             \o SeqRun(rs, k + 1, o.disk, script)

----------------------------------------------------------------------------
\* Properties

FileOf(t) == rows[cur[t]].audio_filename

\* Thread t is inside a call of download_and_extract.
InCall(t) == pc[t] # "idle"

\* Thread t is about to return from a call that went past the idempotence check.
Returning(t) == pc[t] = "leave" /\ temp_dir[t] # NoDir

\* C1: when a fetch that went past the idempotence check returns, whatever its
\* exit path, its output file is not on disk below the 0.1 MB floor.
C1_NoUndersizedOutput ==
    \A t \in Threads : Returning(t) => disk[FileOf(t)] # "small"

\* C2: when a fetch that started with its output file absent returns a failure,
\* the output file does not exist.
C2_NoOutputUnlessSuccess ==
    \A t \in Threads :
        (Returning(t) /\ ~Returned(pending[t]).success) => disk[FileOf(t)] = "absent"

\* C3: a call made while the output file exists goes straight to its return with
\* (True, "Already exists"): no workspace is created, no stage is run, no tool is
\* invoked and the output directory is left as it was, whatever the file's size.
C3_IdempotenceCheck ==
    [][\A t \in Threads :
          /\ (~InCall(t) /\ InCall(t)' /\ Exists(disk, FileOf(t)'))
                => /\ pc'[t] = "leave"
                   /\ pending'[t] = Ret(TRUE, "Already exists")
                   /\ temp_dir'[t] = NoDir
                   /\ tempdirs' = tempdirs
                   /\ stages'[t] = <<>>
                   /\ tools'[t] = NoTools
                   /\ disk' = disk
          /\ (pc[t] = "leave" /\ temp_dir[t] = NoDir /\ ~InCall(t)')
                => /\ disk' = disk
                   /\ tempdirs' = tempdirs
                   /\ stages[t] = <<>>
                   /\ tools[t] = NoTools
                   /\ Returned(pending[t]) = Ret(TRUE, "Already exists")]_vars

\* C3's case: a call is returning "Already exists" for an undersized file.
C3_Witness ==
    \E t \in Threads :
        /\ pc[t] = "leave"
        /\ pending[t] = Ret(TRUE, "Already exists")
        /\ disk[FileOf(t)] = "small"

BagOf(s) == [x \in Range(s) |-> Cardinality({k \in DOMAIN s : s[k] = x})]

\* What the tools did for row k in the main pass, as its result records it.
MainPassTools == [k \in DOMAIN rows |->
                    (CHOOSE r \in Range(results) : r.n = rows[k].n).tools]

\* The results of the run with workers = 1 on the same directory, the tools
\* behaving for each row as they did in this main pass.
SequentialResults == SeqRun(rows, 1, diskStart, MainPassTools)

Reported(rs) == [k \in DOMAIN rs |-> [piece_id |-> rs[k].piece_id,
                                     success |-> rs[k].success,
                                     message |-> rs[k].message]]

DistinctPaths ==
    \A j, k \in DOMAIN rows : j # k => rows[j].audio_filename # rows[k].audio_filename

\* C4 (as claimed): for any worklist and any worker count, once the main pass is
\* over its results are, as a multiset, those of the run with workers = 1 under
\* the same behaviour of the tools for each row.
C4_SameResultsAsSequential ==
    (MainPassDone /\ \A k \in DOMAIN SequentialResults : SequentialResults[k].known)
        => BagOf(Reported(results)) = BagOf(Reported(SequentialResults))

\* C4 (amended): the same, for worklists in which no two rows share an output path;
\* there the sequential run needs no tool behaviour the main pass did not show.
C4_SameResultsDistinctPaths ==
    (MainPassDone /\ DistinctPaths)
        => /\ \A k \in DOMAIN SequentialResults : SequentialResults[k].known
           /\ BagOf(Reported(results)) = BagOf(Reported(SequentialResults))

\* C4's case: a pool run over two rows with distinct paths whose results arrived
\* out of input order, one a success and one a failed fade stage.
C4_Witness ==
    /\ MainPassDone
    /\ workers > 1
    /\ DistinctPaths
    /\ Len(results) = 2
    /\ results[1].n = 2
    /\ results[1].success
    /\ results[1].tools.fade = "ok"
    /\ results[2].tools.fade = "nonzero"

\* The integrity pass has run its retry round to the end.
RetryRoundOver == phase = "done" /\ report \in {"still_missing", "all_downloaded"}

\* C5: without an id filter, once the retry round is over every row whose own
\* output file was absent at the integrity scan has been processed exactly twice
\* (main pass and one retry) and every other row exactly once.
C5_RetryEachMissingRowOnce ==
    RetryRoundOver =>
        \A k \in DOMAIN rows :
            attempts[rows[k].n] = IF k \in missing_rows THEN 2 ELSE 1

\* Every row has exactly one result among rs.
OneResultPerRow(rs) ==
    /\ Len(rs) = Len(rows)
    /\ \A k \in DOMAIN rows :
         Cardinality({j \in DOMAIN rs : rs[j].n = rows[k].n}) = 1

\* C6: whatever the outcomes of the fetches, the batch is never aborted; when the
\* main pass is over every row has been attempted once and has exactly one result,
\* and the summary's counts add up to the number of rows.
C6_BestEffortBatch ==
    /\ phase # "aborted"
    /\ MainPassDone =>
         /\ OneResultPerRow(results)
         /\ \A k \in DOMAIN rows : attempts[rows[k].n] = 1
    /\ successful # -1 =>
         /\ successful >= 0
         /\ failed >= 0
         /\ successful + failed = Len(rows)

\* C6's case: a main pass over two rows has ended with a success and a failure
\* that came from an exception inside the fetch.
C6_Witness ==
    /\ MainPassDone
    /\ Len(rows) = 2
    /\ \E j, k \in DOMAIN results :
         /\ results[j].message = "Success"
         /\ results[k].message = "Error"

\* A tool stage of t's call failed: a non-zero exit, a timeout, an exception, or
\* no downloaded file found.
StageFailed(t) ==
    \/ tools[t].dl \notin {"unset", "ok"}
    \/ tools[t].dl = "ok" /\ "locate" \in Range(stages[t]) /\ tools[t].dlwrote = "no"
    \/ tools[t].trim \notin {"unset", "ok"}
    \/ tools[t].fade \notin {"unset", "ok"}

\* C7: whatever ends a call of download_and_extract, it returns a (success, message)
\* pair and raises nothing, no future holds an exception, and a call in which a
\* stage failed returns success = False.
C7_NeverPropagates ==
    /\ \A t \in Threads :
         pc[t] = "leave" =>
            /\ Returned(pending[t]).kind = "return"
            /\ pending[t].kind = "raise" => ~Returned(pending[t]).success
            /\ StageFailed(t) => ~Returned(pending[t]).success
    /\ \A i \in DOMAIN futures : futures[i] # Raised
    /\ phase # "aborted"

\* C7's case: a call is being left by an exception raised while its temporary
\* workspace is open, after the fade stage has run.
C7_Witness ==
    \E t \in Threads :
        /\ pc[t] = "leave"
        /\ pending[t].kind = "raise"
        /\ temp_dir[t] \in DOMAIN tempdirs
        /\ tools[t].fade = "timeout"

\* Every result the run holds at the moment.
AllResults ==
    Range(results) \cup Range(retry_results)
        \cup {futures[i] : i \in {j \in DOMAIN futures : futures[j] # Pending}}

FailedResults == {r \in AllResults : ~r.success}

\* The outcome of the error taxonomy a failed result falls under, by the first
\* check that failed in its call.
TaxonomyClass(r) ==
    IF r.tools.dl = "timeout" THEN "DownloadTimeout"
    ELSE IF r.tools.dl = "nonzero" THEN "DownloadFailed"
    ELSE IF r.tools.dl = "oserror" THEN "UnknownError"
    ELSE IF r.tools.trim = "unset" THEN "DownloadFailed"
    ELSE IF r.tools.trim \in {"nonzero", "timeout"} THEN "TrimFailed/TrimTimeout"
    ELSE IF r.tools.trim \in {"oserror", "badtimes"} THEN "UnknownError"
    ELSE IF r.tools.fade \in {"nonzero", "timeout"} THEN "FadeFailed/FadeTimeout"
    ELSE IF r.tools.fade = "oserror" THEN "UnknownError"
    ELSE IF r.message = "Output file not created" THEN "OutputMissing"
    ELSE IF r.message = "Output file too small" THEN "OutputTooSmall"
    ELSE "UnknownError"

\* The same, with the outcomes the code does not tell apart merged: a non-zero
\* exit of the trim and of the fade stage, and the timeouts of the three stages;
\* and with the two causes of DownloadFailed, which it does tell apart, split.
ReportedClass(r) ==
    IF "timeout" \in {r.tools.dl, r.tools.trim, r.tools.fade} THEN "Timeout"
    ELSE IF "nonzero" \in {r.tools.trim, r.tools.fade} THEN "ExtractionFailed"
    ELSE IF r.tools.dl = "ok" /\ r.tools.trim = "unset" THEN "NoAudioFile"
    ELSE TaxonomyClass(r)

FailureMessages ==
    {"Download failed", "No audio file found after download", "Extraction failed",
     "Output file not created", "Output file too small", "Timeout", "Error"}

Owners == {t \in Threads : temp_dir[t] # NoDir}

\* C9: the temporary workspaces that exist are exactly those of the calls in
\* flight that went past the idempotence check, one per call and none shared;
\* a thread that has returned holds none.
C9_ScopedWorkspace ==
    /\ DOMAIN tempdirs = {temp_dir[t] : t \in Owners}
    /\ \A t \in Owners : InCall(t)
    /\ \A t1, t2 \in Owners : t1 # t2 => temp_dir[t1] # temp_dir[t2]
    /\ Cardinality(DOMAIN tempdirs) <= Cardinality({t \in Threads : InCall(t)})
    /\ \A t \in Threads :
         pc[t] \in {"download", "locate", "trim", "fade", "verify", "size"}
            => temp_dir[t] \in DOMAIN tempdirs

\* C9's case: a call has returned through the timeout handler and another call
\* is in flight; only the workspace of the latter exists.
C9_Witness ==
    /\ \E i \in DOMAIN futures : futures[i].message = "Timeout"
    /\ \E t \in Threads : pc[t] = "fade"
    /\ Cardinality(DOMAIN tempdirs) = 1

\* The output file of the row a result is about.
FileOfResult(r) == table[r.n].audio_filename

\* C10 (as claimed): in a second run on the same directory and table every fetch
\* is classified "Already exists" and the output files stay as the first run left them.
C10_SecondRunAllAlreadyExists ==
    run = 2 =>
        /\ disk = diskStart
        /\ \A r \in AllResults : r.message = "Already exists"
        /\ \A t \in Threads : InCall(t) => pending[t] = Ret(TRUE, "Already exists")

\* C10 (amended): in a second run every row whose output file the first run left
\* on disk is classified "Already exists" with no tool invoked, and that file
\* stays as it was; rows whose file was absent are attempted again.
C10_SecondRunSkipsExisting ==
    run = 2 =>
        /\ \A f \in Filenames : diskStart[f] # "absent" => disk[f] = diskStart[f]
        /\ \A r \in AllResults :
             diskStart[FileOfResult(r)] # "absent"
                => r.message = "Already exists" /\ r.success /\ r.tools = NoTools
        /\ \A t \in Threads :
             (InCall(t) /\ diskStart[FileOf(t)] # "absent")
                => /\ pending[t] = Ret(TRUE, "Already exists")
                   /\ temp_dir[t] = NoDir
                   /\ tools[t] = NoTools

\* C10's case: the main pass of a second run over two rows has ended, one row's
\* file was left by the first run and the other's was not.
C10_Witness ==
    /\ run = 2
    /\ MainPassDone
    /\ Len(results) = 2
    /\ \E j, k \in DOMAIN results :
         /\ diskStart[FileOfResult(results[j])] # "absent"
         /\ results[j].message = "Already exists"
         /\ diskStart[FileOfResult(results[k])] = "absent"

\* C11: with workers = 1 the rows are fetched in input order by the main thread
\* alone, one at a time: the call in flight is the one for the first row without
\* a result, every earlier row has its result, and the results are in input order.
C11_SequentialInOrder ==
    (workers = 1 /\ phase = "main") =>
        /\ \A t \in Threads \ {0} : ~InCall(t)
        /\ next \in 1..(Len(rows) + 1)
        /\ InCall(0) => cur[0] = next
        /\ Len(results) = next - 1
        /\ \A k \in DOMAIN results : results[k].n = rows[k].n
        /\ \A k \in DOMAIN rows :
             attempts[rows[k].n] = IF k < next \/ (k = next /\ InCall(0)) THEN 1 ELSE 0

\* C11's case: the sequential loop over two rows holds the first row's result, a
\* failure, and is inside the fetch of the second.
C11_Witness ==
    /\ workers = 1
    /\ phase = "main"
    /\ Len(rows) = 2
    /\ Len(results) = 1
    /\ ~results[1].success
    /\ pc[0] = "fade"
    /\ cur[0] = 2

\* The pool's threads that are inside a call.
InFlight == {t \in Threads : InCall(t)}

\* Where row i of the worklist is: waiting in the pool's queue, with a thread, or
\* finished.
Waiting(i) == i \in Range(queue)
RunBy(i) == {t \in Threads : InCall(t) /\ cur[t] = i}
Finished(i) == futures[i] # Pending

\* C12 (state part): with workers > 1, no more than workers fetches are in flight,
\* all of them on pool threads; every row is either waiting, or with exactly one
\* thread, or finished, and has been attempted once unless it is waiting; the
\* summary and the integrity pass find no fetch of the pool in flight or waiting.
C12_PoolState ==
    workers > 1 =>
        /\ Cardinality(InFlight) <= workers
        /\ phase = "main" =>
             /\ InFlight \subseteq 1..workers
             /\ \A i \in DOMAIN rows :
                  /\ Cardinality(RunBy(i)) <= 1
                  /\ Waiting(i) <=> (RunBy(i) = {} /\ ~Finished(i))
                  /\ Finished(i) => RunBy(i) = {}
                  /\ attempts[rows[i].n] = IF Waiting(i) THEN 0 ELSE 1
             /\ yielded \subseteq {i \in DOMAIN rows : Finished(i)}
        /\ (MainPassDone \/ phase \in {"integrity", "retry", "done"}) =>
             /\ queue = <<>>
             /\ \A t \in 1..workers : ~InCall(t)
        /\ successful # -1 => phase # "main"

\* C12 (step part): a thread inside a fetch stays with its row until the fetch has
\* returned, and a row is taken only by an idle thread.
C12_PoolStep ==
    \A t \in Threads :
        /\ (InCall(t) /\ InCall(t)') => cur'[t] = cur[t]
        /\ (cur'[t] # cur[t] /\ InCall(t)') => ~InCall(t)

Selected == {k \in DOMAIN table : table[k].piece_id \in piece_ids}

\* C13: with an id filter the integrity pass is skipped: nothing is scanned and
\* nothing retried, so no row is processed twice, an unselected row is never
\* processed, and at the end of the run every selected row has been processed
\* exactly once; without a filter the run ends only through the integrity pass.
C13_IntegrityGating ==
    /\ piece_ids # NoFilter =>
         /\ phase \notin {"integrity", "retry"}
         /\ report \in {"none", "skipped"}
         /\ missing_files = <<>> /\ missing_rows = {}
         /\ retry_results = <<>> /\ still_missing = <<>>
         /\ {rows[k].n : k \in DOMAIN rows} = Selected
         /\ \A k \in DOMAIN table :
              attempts[k] <= (IF k \in Selected THEN 1 ELSE 0)
         /\ phase = "done" =>
              /\ report = "skipped"
              /\ \A k \in Selected : attempts[k] = 1
    /\ piece_ids = NoFilter =>
         /\ report # "skipped"
         /\ phase = "done" => report \in {"verified", "still_missing", "all_downloaded"}
         /\ report = "none" => phase \in {"main", "integrity"}

\* C13's case: a filtered run has ended; the one selected row failed and its file
\* is absent, the other row of the table was left alone.
C13_Witness ==
    /\ piece_ids # NoFilter
    /\ phase = "done"
    /\ Len(table) = 2
    /\ Len(rows) = 1
    /\ failed = 1
    /\ disk[rows[1].audio_filename] = "absent"

\* The threads inside a call for output file f.
CallsOn(f) == {t \in Threads : InCall(t) /\ FileOf(t) = f}

\* C14 (state part): when no two rows share an output path, no two calls in
\* flight are for the same output file, and no two hold the same workspace.
C14_DisjointCalls ==
    DistinctPaths =>
        \A t1, t2 \in Threads :
            (t1 # t2 /\ InCall(t1) /\ InCall(t2)) =>
                /\ FileOf(t1) # FileOf(t2)
                /\ temp_dir[t1] # NoDir => temp_dir[t1] # temp_dir[t2]

\* C14 (step part): when no two rows share an output path, a step that writes or
\* deletes an output file is the fade stage or the size check of the one call in
\* flight for that file, and it touches no other file; a step that changes the
\* content of a workspace is a step of the call that holds it.
C14_OwnWrites ==
    DistinctPaths =>
        /\ \A f \in Filenames :
             disk'[f] # disk[f] =>
                /\ Cardinality(CallsOn(f)) = 1
                /\ \A t \in CallsOn(f) :
                     pc[t] \in {"fade", "size"} /\ pc'[t] # pc[t]
                /\ \A g \in Filenames \ {f} : disk'[g] = disk[g]
        /\ \A t \in Threads :
             (temp_dir[t] # NoDir /\ temp_dir'[t] = temp_dir[t]
                /\ tempdirs'[temp_dir[t]] # tempdirs[temp_dir[t]])
                => pc'[t] # pc[t]

\* C14: write-write freedom under distinct output paths.
C14_WriteWriteFreedom == []C14_DisjointCalls /\ [][C14_OwnWrites]_vars

\* C14's case: two pool threads run at once on distinct output paths, one about
\* to unlink its undersized output and the other about to write its own.
C14_Witness ==
    /\ workers = 2
    /\ DistinctPaths
    /\ pc[1] = "size"
    /\ disk[FileOf(1)] = "small"
    /\ pc[2] = "fade"
    /\ disk[FileOf(2)] = "absent"

\* C15: under fair scheduling, whatever the tools do, a run that has not ended,
\* with or without calls of download_and_extract in flight, reaches a state in
\* which every call has returned and the run is at its end, with the summary
\* printed and, without an id filter, the integrity pass completed.
C15_Termination ==
    (phase # "done" \/ \E t \in Threads : InCall(t))
        ~> /\ \A t \in Threads : ~InCall(t)
           /\ phase = "done"
           /\ successful # -1
           /\ report # "none"

\* C15's case: a run in which a tool did not exit and was cut off by its timeout,
\* in the main pass and again in the retry, has reached its end.
C15_Witness ==
    /\ phase = "done"
    /\ report = "still_missing"
    /\ \E k \in DOMAIN retry_results :
         /\ retry_results[k].message = "Timeout"
         /\ retry_results[k].tools.dl = "timeout"

\* The run has ended through the integrity pass.
IntegrityPassOver ==
    phase = "done" /\ report \in {"verified", "still_missing", "all_downloaded"}

\* The ids of the rows whose output file is absent.
AbsentIds == {rows[k].piece_id : k \in {j \in DOMAIN rows : ~Exists(disk, rows[j].audio_filename)}}

\* C16: at the end of a run without id filter the ids reported as still missing
\* are exactly the ids of the rows whose output file is absent at that moment.
C16_StillMissingIsAbsent ==
    (piece_ids = NoFilter /\ IntegrityPassOver) => Range(still_missing) = AbsentIds

StageOrder == <<"download", "locate", "trim", "fade", "verify">>

IsPrefix(s, full) == Len(s) <= Len(full) /\ \A k \in DOMAIN s : s[k] = full[k]

\* The number of stages a call has run when it is at pc.
StagesBefore(p) ==
    CASE p = "download" -> {0}
      [] p = "locate" -> {1}
      [] p = "trim" -> {2}
      [] p = "fade" -> {3}
      [] p = "verify" -> {4}
      [] p = "size" -> {5}
      [] OTHER -> 0..5

\* C17: the stages a call has run are a prefix of download, locate, trim, fade,
\* post-condition check, each run at most once and each tool invoked at most once,
\* in its own stage; a stage has been started only if every earlier one succeeded,
\* and a call in which a stage failed is at its return, that stage being the last.
C17_StageOrder ==
    \A t \in Threads :
        InCall(t) =>
            /\ IsPrefix(stages[t], StageOrder)
            /\ Len(stages[t]) \in StagesBefore(pc[t])
            /\ (tools[t].dl # "unset") <=> (Len(stages[t]) >= 1)
            /\ (tools[t].trim # "unset") <=> (Len(stages[t]) >= 3)
            /\ (tools[t].fade # "unset") <=> (Len(stages[t]) >= 4)
            /\ Len(stages[t]) >= 2 => tools[t].dl = "ok"
            /\ Len(stages[t]) >= 3 => tools[t].dlwrote = "yes"
            /\ Len(stages[t]) >= 4 => tools[t].trim = "ok"
            /\ Len(stages[t]) >= 5 => tools[t].fade = "ok"
            /\ StageFailed(t) => pc[t] = "leave"
            /\ temp_dir[t] = NoDir => stages[t] = <<>>

\* C17's case: a call in which the trim stage failed is at its return, having run
\* download, locate and trim and not having invoked the fade tool.
C17_Witness ==
    \E t \in Threads :
        /\ pc[t] = "leave"
        /\ stages[t] = <<"download", "locate", "trim">>
        /\ tools[t].trim = "nonzero"
        /\ tools[t].fade = "unset"

\* What a result records when every tool of its call succeeded and the output
\* was above the size floor.
AllToolsOk == [dl |-> "ok", dlwrote |-> "yes", trim |-> "ok", fade |-> "ok",
               wrote |-> "big"]

\* The rows whose output file was there, or was not, when the run started.
PreExisting == {k \in DOMAIN rows : Exists(diskStart, rows[k].audio_filename)}
WithoutOutput == (DOMAIN rows) \ PreExisting

\* The rows for which the main pass invoked the downloader, and those it reported
\* as already existing.
Downloaded == {k \in DOMAIN rows : \E r \in Range(results) :
                  r.n = rows[k].n /\ r.tools.dl # "unset"}
ReportedExisting == {k \in DOMAIN rows : \E r \in Range(results) :
                        r.n = rows[k].n /\ r.message = "Already exists"}

\* C18: in a run without id filter over rows with distinct output paths in which
\* every tool invoked succeeds with an output above the size floor, the main pass
\* invokes the downloader once for each row without output and for no other,
\* reports the pre-existing ones as already existing and every row as a success;
\* and after a main pass with as many successes as rows the integrity pass finds
\* nothing missing and retries nothing.
C18_ResumedRun ==
    (piece_ids = NoFilter /\ DistinctPaths) =>
        /\ (MainPassDone /\ \A r \in Range(results) : r.tools \in {NoTools, AllToolsOk}) =>
             /\ OneResultPerRow(results)
             /\ \A k \in DOMAIN rows : attempts[rows[k].n] = 1
             /\ Downloaded = WithoutOutput
             /\ ReportedExisting = PreExisting
             /\ CountSuccess(results) = Len(rows)
             /\ \A k \in DOMAIN rows : Exists(disk, rows[k].audio_filename)
             /\ \A k \in WithoutOutput : disk[rows[k].audio_filename] = "big"
        /\ successful = Len(rows) =>
             /\ failed = 0
             /\ \A k \in DOMAIN rows : Exists(disk, rows[k].audio_filename)
             /\ \A k \in DOMAIN rows : attempts[rows[k].n] = 1
             /\ phase \in {"integrity", "done"}
             /\ missing_files = <<>>
             /\ retry_results = <<>>
             /\ phase = "done" => report = "verified"

\* C18's case: a first run over two rows, the output of one pre-existing, has ended
\* with two successes and the integrity pass has verified both files.
C18_Witness ==
    /\ piece_ids = NoFilter
    /\ DistinctPaths
    /\ run = 1
    /\ Len(rows) = 2
    /\ Cardinality(PreExisting) = 1
    /\ successful = 2
    /\ phase = "done"
    /\ report = "verified"
    /\ \A k \in WithoutOutput : disk[rows[k].audio_filename] = "big"

\* Thread t is about to return a success from download_and_extract, which
\* process_entry hands on as success = True (lines 181-189).
ReturningSuccess(t) == pc[t] = "leave" /\ Returned(pending[t]).success

\* At the return of every successful call its output file exists, and is above
\* the size floor unless the call was an "Already exists" short-circuit.
SuccessHasFile ==
    \A t \in Threads :
        ReturningSuccess(t) =>
            /\ Exists(disk, FileOf(t))
            /\ Returned(pending[t]).what # "Already exists" => disk[FileOf(t)] = "big"

\* C19 (as claimed): for any worker count and any interleaving, a call that returns
\* success = True has its output file on disk at the moment of return, above the
\* size floor unless it was a short-circuit.
C19_SuccessHasFile == SuccessHasFile

\* C19 (amended): the same, for worklists in which no two rows share an output
\* path.
C19_SuccessHasFileDistinctPaths == DistinctPaths => SuccessHasFile

\* C19's case: on distinct output paths a pool thread is returning "Success"
\* while the other is about to unlink its own undersized output.
C19_Witness ==
    /\ workers = 2
    /\ DistinctPaths
    /\ ReturningSuccess(1)
    /\ pending[1].what = "Success"
    /\ pc[2] = "size"
    /\ disk[FileOf(2)] = "small"

\* C20: in a run without id filter every row whose main-pass result is a failure
\* has its output file absent when the main pass is over, so that the scan lists
\* it and the retry loop processes it; the integrity pass retries at least as many
\* rows as the summary counted failures, and reports all files verified present
\* only after a main pass without failure.
C20_FailuresAreRetried ==
    piece_ids = NoFilter =>
        /\ MainPassDone =>
             \A r \in Range(results) : ~r.success => ~Exists(disk, FileOfResult(r))
        /\ IntegrityPassOver => Len(retry_results) >= failed
        /\ report = "verified" => failed = 0

====
